---- MODULE Spec2Model ----
(***************************************************************************)
(* Paperbox: the text analytics engine (paperbox/nlp.py), the graph        *)
(* builder (paperbox/graphing.py), the graph command (paperbox/cli.py)     *)
(* and the document store with its full-text index (paperbox/db.py,        *)
(* paperbox/ingest.py).                                                    *)
(*                                                                         *)
(* A text is a sequence of characters; a character is a one-element        *)
(* string; a character outside ASCII, and the grave accent, is written by   *)
(* its code point ("u3002").  Every engine function is an operator on such *)
(* sequences.                                                              *)
(***************************************************************************)
EXTENDS Integers, Sequences, FiniteSets, TLC

VARIABLES
    phase,      \* "idle": no call in progress; "returned": a call has returned
    call,       \* the operation called last and its arguments
    result,     \* what that call returned, or the exception it raised
    docs,       \* the docs table: a set of rows
    docs_fts,   \* the docs_fts index: a set of postings <<rowid, token>>
    seq         \* the AUTOINCREMENT counter of docs.id

vars == <<phase, call, result, docs, docs_fts, seq>>

(***************************************************************************)
(* Characters                                                              *)
(***************************************************************************)
NL == "\n"
CR == "\r"
FF == "\f"
TAB == "\t"
SP == " "
QUOTE == "\""
BACKSLASH == "\\"
\* the grave accent of a code fence, by its code point
BACKTICK == "u0060"

LowerLetters ==
    {"a", "b", "c", "d", "e", "f", "g", "h", "i", "j", "k", "l", "m",
     "n", "o", "p", "q", "r", "s", "t", "u", "v", "w", "x", "y", "z"}

UpperLetters ==
    {"A", "B", "C", "D", "E", "F", "G", "H", "I", "J", "K", "L", "M",
     "N", "O", "P", "Q", "R", "S", "T", "U", "V", "W", "X", "Y", "Z"}

Digits == {"0", "1", "2", "3", "4", "5", "6", "7", "8", "9"}

\* str.lower() on the characters of the model
LowerMap ==
    ("A" :> "a") @@ ("B" :> "b") @@ ("C" :> "c") @@ ("D" :> "d") @@
    ("E" :> "e") @@ ("F" :> "f") @@ ("G" :> "g") @@ ("H" :> "h") @@
    ("I" :> "i") @@ ("J" :> "j") @@ ("K" :> "k") @@ ("L" :> "l") @@
    ("M" :> "m") @@ ("N" :> "n") @@ ("O" :> "o") @@ ("P" :> "p") @@
    ("Q" :> "q") @@ ("R" :> "r") @@ ("S" :> "s") @@ ("T" :> "t") @@
    ("U" :> "u") @@ ("V" :> "v") @@ ("W" :> "w") @@ ("X" :> "x") @@
    ("Y" :> "y") @@ ("Z" :> "z")

LowerChar(c) == IF c \in UpperLetters THEN LowerMap[c] ELSE c

lower(s) == [i \in 1..Len(s) |-> LowerChar(s[i])]

\* \s of the re module, and what str.strip() removes
Whitespace == {SP, TAB, NL, CR, FF}

\* the line boundaries of str.splitlines(): more than "\n"
LineBoundaries == {NL, CR, FF}

\* [。！？!?\.] : u3002, uff01, uff1f are the full-width marks
SentEnd == {"u3002", "uff01", "uff1f", "!", "?", "."}

\* [぀-ヿ㐀-䶿一-鿿], by one character of each range
JpChars == {"u3042", "u3400", "u4e00"}

\* [A-Za-z] and [A-Za-z0-9\-']
WordHead == LowerLetters \cup UpperLetters
WordTail == WordHead \cup Digits \cup {"-", "'"}

\* the last index of the run of characters of cls that starts at i
RECURSIVE RunEnd(_, _, _)
RunEnd(text, i, cls) ==
    IF i < Len(text) /\ text[i + 1] \in cls
    THEN RunEnd(text, i + 1, cls)
    ELSE i

\* str.strip()
RECURSIVE lstrip(_)
lstrip(s) ==
    IF s # <<>> /\ Head(s) \in Whitespace THEN lstrip(Tail(s)) ELSE s

RECURSIVE rstrip(_)
rstrip(s) ==
    IF s # <<>> /\ s[Len(s)] \in Whitespace
    THEN rstrip(SubSeq(s, 1, Len(s) - 1))
    ELSE s

strip(s) == rstrip(lstrip(s))

\* "sep".join(parts)
RECURSIVE join(_, _)
join(sep, parts) ==
    IF parts = <<>> THEN <<>>
    ELSE IF Len(parts) = 1 THEN parts[1]
    ELSE parts[1] \o sep \o join(sep, Tail(parts))

\* len(s.splitlines()): a line ends at every boundary, "\r\n" counts once,
\* and no empty line follows a final boundary
RECURSIVE splitlines_count(_, _, _)
splitlines_count(s, i, open) ==
    IF i > Len(s) THEN (IF open THEN 1 ELSE 0)
    ELSE IF s[i] = CR /\ i < Len(s) /\ s[i + 1] = NL
         THEN 1 + splitlines_count(s, i + 2, FALSE)
    ELSE IF s[i] \in LineBoundaries
         THEN 1 + splitlines_count(s, i + 1, FALSE)
    ELSE splitlines_count(s, i + 1, TRUE)

\* len(s.split("\n")) for a non-empty s, 0 for the empty string: the number
\* of "\n"-joined parts
newline_parts(s) ==
    IF s = <<>> THEN 0
    ELSE 1 + Cardinality({i \in 1..Len(s) : s[i] = NL})

(***************************************************************************)
(* Sentence splitter                                                       *)
(***************************************************************************)
\* _SENT_SPLIT_RE.split(text): the pieces between the matches of
\* (?<=[。！？!?\.])\s+|\n+ , scanning left to right from position i
RECURSIVE re_split(_, _, _, _)
re_split(text, i, start, acc) ==
    IF i > Len(text)
    THEN Append(acc, SubSeq(text, start, Len(text)))
    ELSE IF i > 1 /\ text[i - 1] \in SentEnd /\ text[i] \in Whitespace
    THEN LET j == RunEnd(text, i, Whitespace)
         IN  re_split(text, j + 1, j + 1,
                      Append(acc, SubSeq(text, start, i - 1)))
    ELSE IF text[i] = NL
    THEN LET j == RunEnd(text, i, {NL})
         IN  re_split(text, j + 1, j + 1,
                      Append(acc, SubSeq(text, start, i - 1)))
    ELSE re_split(text, i + 1, start, acc)

\* raw = [s.strip() for s in _SENT_SPLIT_RE.split(text) if s and s.strip()]
RECURSIVE raw_of(_)
raw_of(pieces) ==
    IF pieces = <<>> THEN <<>>
    ELSE LET s == strip(Head(pieces))
         IN  IF s = <<>> THEN raw_of(Tail(pieces))
             ELSE <<s>> \o raw_of(Tail(pieces))

MergeLen == 20

\* a merge loop that also takes in a fragment of exactly MergeLen characters
RECURSIVE merge_at_most(_, _, _)
merge_at_most(raw, out, buf) ==
    IF raw = <<>>
    THEN (IF buf # <<>> THEN Append(out, buf) ELSE out)
    ELSE LET s == Head(raw)
         IN  IF Len(s) <= MergeLen /\ buf # <<>>
             THEN merge_at_most(Tail(raw), out, strip(buf \o <<SP>> \o s))
             ELSE merge_at_most(Tail(raw),
                                IF buf # <<>> THEN Append(out, buf) ELSE out,
                                s)

\* the merge loop: state <<out, buf>>
RECURSIVE merge(_, _, _)
merge(raw, out, buf) ==
    IF raw = <<>>
    THEN (IF buf # <<>> THEN Append(out, buf) ELSE out)
    ELSE LET s == Head(raw)
         IN  IF Len(s) < MergeLen /\ buf # <<>>
             THEN merge(Tail(raw), out, strip(buf \o <<SP>> \o s))
             ELSE merge(Tail(raw),
                        IF buf # <<>> THEN Append(out, buf) ELSE out, s)

split_sentences(text) == merge(raw_of(re_split(text, 1, 1, <<>>)), <<>>, <<>>)

(***************************************************************************)
(* Tokenizer                                                               *)
(***************************************************************************)
EN_STOP ==
    {
    <<"t","h","e">>, <<"a">>, <<"a","n">>, <<"a","n","d">>,
    <<"o","r">>, <<"t","o">>, <<"o","f">>, <<"i","n">>,
    <<"f","o","r">>, <<"o","n">>, <<"w","i","t","h">>, <<"a","s">>,
    <<"b","y">>, <<"a","t">>, <<"f","r","o","m">>, <<"i","s">>,
    <<"a","r","e">>, <<"w","a","s">>, <<"w","e","r","e">>, <<"b","e">>,
    <<"b","e","e","n">>, <<"b","e","i","n","g">>, <<"t","h","i","s">>,
    <<"t","h","a","t">>, <<"t","h","e","s","e">>, <<"t","h","o","s","e">>,
    <<"i","t">>, <<"w","e">>, <<"y","o","u">>, <<"t","h","e","y">>, <<"i">>,
    <<"h","e">>, <<"s","h","e">>, <<"t","h","e","m">>, <<"h","i","s">>,
    <<"h","e","r">>, <<"t","h","e","i","r">>, <<"o","u","r">>,
    <<"y","o","u","r">>
    }

\* the numerator and denominator of the default threshold 0.08
JpThresholdNum == 8
JpThresholdDen == 100

\* (jp / max(len(text), 1)) >= threshold
is_probably_japanese(text) ==
    IF text = <<>> THEN FALSE
    ELSE LET jp == Cardinality({i \in 1..Len(text) : text[i] \in JpChars})
         IN  jp * JpThresholdDen >= JpThresholdNum * Len(text)

\* _word_re.finditer(text): the matches of [A-Za-z][A-Za-z0-9\-']{1,}
RECURSIVE word_matches(_, _, _)
word_matches(text, i, acc) ==
    IF i > Len(text) THEN acc
    ELSE IF text[i] \in WordHead /\ i < Len(text) /\ text[i + 1] \in WordTail
    THEN LET j == RunEnd(text, i + 1, WordTail)
         IN  word_matches(text, j + 1, Append(acc, SubSeq(text, i, j)))
    ELSE word_matches(text, i + 1, acc)

\* the sub-sequence of the tokens that satisfy keep, in order
RECURSIVE filter_tokens(_, _, _)
filter_tokens(toks, stop, minlen) ==
    IF toks = <<>> THEN <<>>
    ELSE LET t == Head(toks)
         IN  IF t \notin stop /\ Len(t) > minlen
             THEN <<t>> \o filter_tokens(Tail(toks), stop, minlen)
             ELSE filter_tokens(Tail(toks), stop, minlen)

\* the English-ish branch
en_tokenize(text) ==
    LET ms == word_matches(text, 1, <<>>)
        lowered == [i \in 1..Len(ms) |-> lower(ms[i])]
    IN  filter_tokens(lowered, EN_STOP, 2)

\* the Japanese branch.  The segmenter is the janome library; what the
\* model keeps of it: it cuts the text at white space and at every change
\* between a Japanese and another character, and drops nothing else.
RECURSIVE wakati(_, _, _)
wakati(text, i, acc) ==
    IF i > Len(text) THEN acc
    ELSE IF text[i] \in Whitespace THEN wakati(text, i + 1, acc)
    ELSE LET cls == IF text[i] \in JpChars THEN JpChars
                    ELSE {c \in WordTail \cup SentEnd \cup {QUOTE, BACKSLASH} :
                             c \notin JpChars}
             j == IF text[i] \in cls THEN RunEnd(text, i, cls) ELSE i
         IN  wakati(text, j + 1, Append(acc, SubSeq(text, i, j)))

ja_tokenize(text) == filter_tokens(wakati(text, 1, <<>>), {}, 1)

tokenize(text) ==
    IF is_probably_japanese(text) THEN ja_tokenize(text)
    ELSE en_tokenize(text)

(***************************************************************************)
(* Summarizer                                                              *)
(***************************************************************************)
\* freq: how often each token occurs in toks
count_in(toks, t) == Cardinality({i \in 1..Len(toks) : toks[i] = t})

token_set(toks) == {toks[i] : i \in 1..Len(toks)}

RECURSIVE sum_counts(_, _)
sum_counts(toks, all) ==
    IF toks = <<>> THEN 0
    ELSE count_in(all, Head(toks)) + sum_counts(Tail(toks), all)

\* 1000 * (1.0 + math.log(1 + n)), rounded, for n = 0 .. 24
LogDen ==
    <<1000, 1693, 2099, 2386, 2609, 2792, 2946, 3079, 3197, 3303, 3398,
      3485, 3565, 3639, 3708, 3773, 3833, 3890, 3944, 3996, 4045, 4091,
      4135, 4178, 4219>>

\* The score of a sentence is sum(freq[t] / maxf) / (1.0 + log(1 + n)).  Its
\* model is the pair [s, n]: s the sum of the counts of its tokens in the
\* whole text, n the number of its tokens; maxf is the same positive factor
\* in every score of one call.  A sentence without tokens scores 0.0.
score_of(sent, all) ==
    LET toks == tokenize(sent)
    IN  [s |-> sum_counts(toks, all), n |-> Len(toks)]

\* a.score > b.score
score_gt(a, b) == a.s * LogDen[b.n + 1] > b.s * LogDen[a.n + 1]

score_eq(a, b) == a.s * LogDen[b.n + 1] = b.s * LogDen[a.n + 1]

\* sorted(scored, key=lambda x: x[1], reverse=True): a stable sort, so an
\* entry goes behind every entry whose score is greater or equal
\* an unstable sort: an entry goes before the entries of equal score
RECURSIVE insert_unstable(_, _)
insert_unstable(sorted, x) ==
    IF sorted = <<>> THEN <<x>>
    ELSE IF ~score_gt(Head(sorted).score, x.score)
    THEN <<x>> \o sorted
    ELSE <<Head(sorted)>> \o insert_unstable(Tail(sorted), x)

RECURSIVE insert_by_score(_, _)
insert_by_score(sorted, x) ==
    IF sorted = <<>> THEN <<x>>
    ELSE IF score_gt(x.score, Head(sorted).score)
    THEN <<x>> \o sorted
    ELSE <<Head(sorted)>> \o insert_by_score(Tail(sorted), x)

RECURSIVE sort_by_score(_, _)
sort_by_score(scored, acc) ==
    IF scored = <<>> THEN acc
    ELSE sort_by_score(Tail(scored), insert_by_score(acc, Head(scored)))

\* sorted(..., key=lambda x: x[0])
RECURSIVE insert_by_index(_, _)
insert_by_index(sorted, x) ==
    IF sorted = <<>> THEN <<x>>
    ELSE IF x.i < Head(sorted).i
    THEN <<x>> \o sorted
    ELSE <<Head(sorted)>> \o insert_by_index(Tail(sorted), x)

RECURSIVE sort_by_index(_, _)
sort_by_index(xs, acc) ==
    IF xs = <<>> THEN acc
    ELSE sort_by_index(Tail(xs), insert_by_index(acc, Head(xs)))

\* seq[:k + 1]: one sentence more than asked for
prefix_one_more(xs, k) == SubSeq(xs, 1, IF k + 1 < Len(xs) THEN k + 1 ELSE Len(xs))

\* seq[:k] for k >= 0
prefix(xs, k) == SubSeq(xs, 1, IF k < Len(xs) THEN k ELSE Len(xs))

\* top_idx: the k best by score, back in the order of the text
top_idx_of(scored, k) ==
    sort_by_index(prefix(sort_by_score(scored, <<>>), k), <<>>)

\* summarize(text, sentences=k).  out is the string returned; path, sents,
\* scored and top_idx are the locals of the call (indices count from 1).
summarize(text, k) ==
    LET sents == split_sentences(text)
        all == tokenize(text)
        scored == [i \in 1..Len(sents) |->
                      [i |-> i, score |-> score_of(sents[i], all)]]
        top_idx == top_idx_of(scored, k)
    IN  IF sents = <<>>
        THEN [out |-> <<>>, path |-> "empty", sents |-> sents,
              scored |-> <<>>, top_idx |-> <<>>]
        ELSE IF all = <<>>
        THEN [out |-> join(<<NL>>, prefix(sents, k)), path |-> "head",
              sents |-> sents, scored |-> <<>>,
              top_idx |-> [i \in 1..Len(prefix(sents, k)) |->
                              [i |-> i, score |-> [s |-> 0, n |-> 0]]]]
        ELSE [out |-> strip(join(<<NL>>,
                         [j \in 1..Len(top_idx) |-> sents[top_idx[j].i]])),
              path |-> "scored", sents |-> sents, scored |-> scored,
              top_idx |-> top_idx]

(***************************************************************************)
(* Vector space builder: TfidfVectorizer(tokenizer=tokenize,               *)
(* lowercase=False, min_df=1, max_df=0.95, ngram_range=(1,2))              *)
(***************************************************************************)
\* ngram_range=(1,2): the tokens, then every pair of neighbours joined by
\* one space
ngrams(toks) ==
    toks \o [i \in 1..(Len(toks) - 1) |-> toks[i] \o <<SP>> \o toks[i + 1]]

analyze(text) == ngrams(tokenize(text))

MinDf == 1
\* max_df = 0.95 as a fraction
MaxDfNum == 95
MaxDfDen == 100

\* min_df alone: no term is dropped for being in every document
limit_features_min_df_only(vocab, df, n_doc) ==
    {t \in vocab : df[t] >= MinDf}

\* the terms kept: min_df <= df <= max_df * n_doc
limit_features(vocab, df, n_doc) ==
    {t \in vocab : df[t] >= MinDf /\ df[t] * MaxDfDen <= MaxDfNum * n_doc}

\* 10 * (ln((1 + n_doc) / (1 + df)) + 1), rounded: IdfTimes10[n_doc][df]
IdfTimes10 ==
    <<<<10>>,
      <<14, 10>>,
      <<17, 13, 10>>,
      <<19, 15, 12, 10>>,
      <<21, 17, 14, 12, 10>>>>

RECURSIVE sum_over(_, _)
sum_over(f, S) ==
    IF S = {} THEN 0
    ELSE LET x == CHOOSE y \in S : TRUE
         IN  f[x] + sum_over(f, S \ {x})

\* vec.fit_transform(texts).  A row of X is w[d] / sqrt(n[d]): w[d][t] is
\* tf * idf (times 10) and n[d] the sum of the squares of w[d], the square
\* of the L2 norm the row is divided by (a row of zeros stays as it is).
fit_transform(texts) ==
    LET n_doc == Len(texts)
        terms == [d \in 1..n_doc |-> analyze(texts[d])]
        vocabulary == UNION {token_set(terms[d]) : d \in 1..n_doc}
        df == [t \in vocabulary |->
                  Cardinality({d \in 1..n_doc : t \in token_set(terms[d])})]
        kept == limit_features(vocabulary, df, n_doc)
        w == [d \in 1..n_doc |->
                 [t \in kept |->
                     count_in(terms[d], t) * IdfTimes10[n_doc][df[t]]]]
        n == [d \in 1..n_doc |->
                 sum_over([t \in kept |-> w[d][t] * w[d][t]], kept)]
    IN  IF vocabulary = {}
        THEN [kind |-> "ValueError", msg |-> "empty vocabulary"]
        ELSE IF MaxDfNum * n_doc < MinDf * MaxDfDen
        THEN [kind |-> "ValueError", msg |-> "max_df < min_df"]
        ELSE IF kept = {}
        THEN [kind |-> "ValueError", msg |-> "no terms remain"]
        ELSE [kind |-> "ok", vocab |-> kept, w |-> w, n |-> n]

\* cosine_similarity of rows a and b of X, as the triple it is computed
\* from: dot / (sqrt(na) * sqrt(nb)), and 0 when a row is all zeros
cosine(X, a, b) ==
    [dot |-> sum_over([t \in X.vocab |-> X.w[a][t] * X.w[b][t]], X.vocab),
     na |-> X.n[a], nb |-> X.n[b]]

sim_is_zero(s) == s.dot = 0
sim_is_one(s) == s.dot > 0 /\ s.dot * s.dot = s.na * s.nb
sim_in_unit_interval(s) == s.dot >= 0 /\ s.dot * s.dot <= s.na * s.nb

\* the sign of A / sqrt(na) - B / sqrt(nb), for na, nb > 0
cmp_root(A, na, B, nb) ==
    LET l == A * A * nb
        r == B * B * na
    IN  IF A >= 0 /\ B >= 0 THEN (IF l > r THEN 1 ELSE IF l < r THEN -1 ELSE 0)
        ELSE IF A < 0 /\ B < 0
        THEN (IF l < r THEN 1 ELSE IF l > r THEN -1 ELSE 0)
        ELSE IF A >= 0 THEN 1
        ELSE -1

(***************************************************************************)
(* Comparator                                                              *)
(***************************************************************************)
\* a norm of 0 belongs to a row of zeros: any positive divisor does
nz(n) == IF n = 0 THEN 1 ELSE n

\* v1[t] < v2[t], v1[t] > v2[t] for rows 1 and 2 of X
row_cmp(X, t) == cmp_root(X.w[1][t], nz(X.n[1]), X.w[2][t], nz(X.n[2]))

\* common[t] > 0, u1[t] > 0, u2[t] > 0
common_pos(X, t) == X.w[1][t] > 0 /\ X.w[2][t] > 0
u1_pos(X, t) == row_cmp(X, t) = 1
u2_pos(X, t) == row_cmp(X, t) = -1

\* np.minimum(v1, v2)[t] as the pair [w, n] of the smaller entry
common_val(X, t) ==
    IF row_cmp(X, t) <= 0 THEN [w |-> X.w[1][t], n |-> nz(X.n[1])]
    ELSE [w |-> X.w[2][t], n |-> nz(X.n[2])]

\* common[t] > common[u]
common_gt(X, t, u) ==
    LET a == common_val(X, t)
        b == common_val(X, u)
    IN  cmp_root(a.w, a.n, b.w, b.n) = 1

\* u1[t] > u1[u] where u1 = np.maximum(v1 - v2, 0.0)
u1_gt(X, t, u) ==
    /\ u1_pos(X, t)
    /\ cmp_root(X.w[1][t] - X.w[1][u], nz(X.n[1]),
                X.w[2][t] - X.w[2][u], nz(X.n[2])) = 1

\* u2[t] > u2[u] where u2 = np.maximum(v2 - v1, 0.0)
u2_gt(X, t, u) ==
    /\ u2_pos(X, t)
    /\ cmp_root(X.w[2][t] - X.w[2][u], nz(X.n[2]),
                X.w[1][t] - X.w[1][u], nz(X.n[1])) = 1

\* [i for i in val.argsort()[::-1][:top_terms] if val[i] > 0], as the sets
\* of terms it can hold: the positive terms when they are at most
\* top_terms, else top_terms of them with none left out that is greater
\* than one kept (argsort orders equal values as the sort happens to).
\* gt is the set of the pairs <<t, u>> with val[t] > val[u].
top_sets(pos, gt, top_terms) ==
    IF Cardinality(pos) <= top_terms THEN {pos}
    ELSE {S \in SUBSET pos :
             /\ Cardinality(S) = top_terms
             /\ \A kept \in S, out \in pos \ S : <<out, kept>> \notin gt}

\* compare_texts from the line after X = vec.fit_transform(...): the similarity
\* and the three term lists read off the fitted rows X
compare_rows(X, top_terms) ==
    LET c_pos == {t \in X.vocab : common_pos(X, t)}
        a_pos == {t \in X.vocab : u1_pos(X, t)}
        b_pos == {t \in X.vocab : u2_pos(X, t)}
        c_gt == {p \in c_pos \X c_pos : common_gt(X, p[1], p[2])}
        a_gt == {p \in a_pos \X a_pos : u1_gt(X, p[1], p[2])}
        b_gt == {p \in b_pos \X b_pos : u2_gt(X, p[1], p[2])}
    IN  IF X.kind # "ok" THEN {X}
        ELSE {[kind |-> "ok",
               similarity |-> cosine(X, 1, 2),
               common_terms |-> r[1],
               doc1_unique_terms |-> r[2],
               doc2_unique_terms |-> r[3]] :
                 r \in top_sets(c_pos, c_gt, top_terms)
                       \X top_sets(a_pos, a_gt, top_terms)
                       \X top_sets(b_pos, b_gt, top_terms)}

\* compare_texts(text1, text2, top_terms): the results the call can give; the
\* matrix is fitted once and bound to X, as in the source
compare_texts(text1, text2, top_terms) ==
    UNION {compare_rows(X, top_terms) : X \in {fit_transform(<<text1, text2>>)}}

\* pairwise_similarity(texts): cosine_similarity(X), the full matrix
pairwise_similarity(texts) ==
    LET X == fit_transform(texts)
    IN  IF X.kind # "ok" THEN X
        ELSE [kind |-> "ok",
              sim |-> [a \in 1..Len(texts) |->
                          [b \in 1..Len(texts) |-> cosine(X, a, b)]]]

(***************************************************************************)
(* Graph builder.  A weight and a threshold are numbers of hundredths.     *)
(***************************************************************************)
\* the pairs i < j of range(n), rows first: <<0, 1>>, <<0, 2>>, ...
RECURSIVE upper_pairs(_, _, _)
upper_pairs(n, i, j) ==
    IF i >= n THEN <<>>
    ELSE IF j >= n THEN upper_pairs(n, i + 1, i + 2)
    ELSE <<[a |-> i, b |-> j]>> \o upper_pairs(n, i, j + 1)

\* the loop of build_edges: an Edge for every pair with w >= threshold
RECURSIVE edges_over(_, _, _)
edges_over(sim, threshold, pairs) ==
    IF pairs = <<>> THEN <<>>
    ELSE LET p == Head(pairs)
             w == sim[p.a + 1][p.b + 1]
         IN  IF w >= threshold
             THEN <<[a |-> p.a, b |-> p.b, weight |-> w]>>
                      \o edges_over(sim, threshold, Tail(pairs))
             ELSE edges_over(sim, threshold, Tail(pairs))

\* a sort that puts the light edges first
RECURSIVE insert_ascending(_, _)
insert_ascending(sorted, e) ==
    IF sorted = <<>> THEN <<e>>
    ELSE IF e.weight < Head(sorted).weight
    THEN <<e>> \o sorted
    ELSE <<Head(sorted)>> \o insert_ascending(Tail(sorted), e)

\* edges.sort(key=lambda e: e.weight, reverse=True): stable
RECURSIVE insert_edge(_, _)
insert_edge(sorted, e) ==
    IF sorted = <<>> THEN <<e>>
    ELSE IF e.weight > Head(sorted).weight
    THEN <<e>> \o sorted
    ELSE <<Head(sorted)>> \o insert_edge(Tail(sorted), e)

RECURSIVE sort_edges(_, _)
sort_edges(edges, acc) ==
    IF edges = <<>> THEN acc
    ELSE sort_edges(Tail(edges), insert_edge(acc, Head(edges)))

build_edges(sim, threshold) ==
    sort_edges(edges_over(sim, threshold, upper_pairs(Len(sim), 0, 1)), <<>>)

(***************************************************************************)
(* Rendering                                                               *)
(***************************************************************************)
DigitChars == <<"0", "1", "2", "3", "4", "5", "6", "7", "8", "9">>

\* str(n) for n >= 0
RECURSIVE decimal(_)
decimal(n) ==
    IF n < 10 THEN <<DigitChars[n + 1]>>
    ELSE decimal(n \div 10) \o <<DigitChars[(n % 10) + 1]>>

\* f"{x:.2f}" for x = h hundredths, h >= 0
fmt2(h) ==
    decimal(h \div 100) \o <<".">>
        \o <<DigitChars[((h \div 10) % 10) + 1], DigitChars[(h % 10) + 1]>>

s_mermaid_open ==
    <<BACKTICK, BACKTICK, BACKTICK, "m", "e", "r", "m", "a", "i", "d">>
s_graph_td ==
    <<"g", "r", "a", "p", "h", SP, "T", "D">>
s_fence ==
    <<BACKTICK, BACKTICK, BACKTICK>>
s_dot_open ==
    <<"g", "r", "a", "p", "h", SP, "G", SP, "{">>
s_dot_graph ==
    <<SP, SP, "g", "r", "a", "p", "h", SP, "[", "o", "v", "e", "r", "l",
    "a", "p", "=", "f", "a", "l", "s", "e", ",", SP, "s", "p", "l", "i",
    "n", "e", "s", "=", "t", "r", "u", "e", "]", ";">>
s_dot_node ==
    <<SP, SP, "n", "o", "d", "e", SP, "[", "s", "h", "a", "p", "e", "=",
    "b", "o", "x", "]", ";">>
s_dot_close ==
    <<"}">>
f_mermaid ==
    <<"m", "e", "r", "m", "a", "i", "d">>
f_dot ==
    <<"d", "o", "t">>
f_DOT ==
    <<"D", "O", "T">>
f_svg ==
    <<"s", "v", "g">>

\* s.replace(old, new) for a one-character old
RECURSIVE replace(_, _, _)
replace(s, old, new) ==
    IF s = <<>> THEN <<>>
    ELSE IF Head(s) = old THEN new \o replace(Tail(s), old, new)
    ELSE <<Head(s)>> \o replace(Tail(s), old, new)

\* the second argument of replace in render_dot: a backslash and a quote
\* between single quotes, which Python reads as the escape sequence for the
\* quote: a string of one character, the quote itself
EscapedQuoteLiteral == <<QUOTE>>

\* safe = nd.label.replace(quote, that literal)
safe_label(label) == replace(label, QUOTE, EscapedQuoteLiteral)

\* the f-string of a node: two spaces, D, the id, [, quote, the label,
\* quote, ]
mermaid_node(nd) ==
    <<SP, SP, "D">> \o decimal(nd.id) \o <<"[", QUOTE>> \o nd.label
        \o <<QUOTE, "]">>

\* the f-string of an edge: D{e.a} ---|{e.weight:.2f}| D{e.b}
mermaid_edge(e) ==
    <<SP, SP, "D">> \o decimal(e.a) \o <<SP, "-", "-", "-", "|">>
        \o fmt2(e.weight) \o <<"|", SP, "D">> \o decimal(e.b)

\* the text of a node line before and behind the label
dot_node_head(nd) ==
    <<SP, SP, "D">> \o decimal(nd.id)
        \o <<SP, "[", "l", "a", "b", "e", "l", "=", QUOTE>>
dot_node_tail == <<QUOTE, "]", ";">>

\* the f-string of a node: head, safe, tail
dot_node(nd) == dot_node_head(nd) \o safe_label(nd.label) \o dot_node_tail

\* the f-string of an edge: D{e.a} -- D{e.b} with label {e.weight:.2f} and
\* penwidth {(1.0 + 4.0*e.weight):.2f}
dot_edge(e) ==
    <<SP, SP, "D">> \o decimal(e.a) \o <<SP, "-", "-", SP, "D">>
        \o decimal(e.b)
        \o <<SP, "[", "l", "a", "b", "e", "l", "=", QUOTE>>
        \o fmt2(e.weight)
        \o <<QUOTE, ",", SP, "p", "e", "n", "w", "i", "d", "t", "h", "=">>
        \o fmt2(100 + 4 * e.weight) \o <<"]", ";">>

\* the lines render_mermaid joins with "\n"
render_mermaid_lines(nodes, edges) ==
    <<s_mermaid_open, s_graph_td>>
        \o [i \in 1..Len(nodes) |-> mermaid_node(nodes[i])]
        \o [i \in 1..Len(edges) |-> mermaid_edge(edges[i])]
        \o <<s_fence>>

\* the lines render_dot joins with "\n"
render_dot_lines(nodes, edges) ==
    <<s_dot_open, s_dot_graph, s_dot_node>>
        \o [i \in 1..Len(nodes) |-> dot_node(nodes[i])]
        \o [i \in 1..Len(edges) |-> dot_edge(edges[i])]
        \o <<s_dot_close>>

render_mermaid(nodes, edges) ==
    [kind |-> "ok", encoding |-> "mermaid",
     lines |-> render_mermaid_lines(nodes, edges),
     out |-> join(<<NL>>, render_mermaid_lines(nodes, edges))]

render_dot(nodes, edges) ==
    [kind |-> "ok", encoding |-> "dot",
     lines |-> render_dot_lines(nodes, edges),
     out |-> join(<<NL>>, render_dot_lines(nodes, edges))]

\* render(nodes, edges, fmt)
render(nodes, edges, fmt) ==
    IF fmt = f_dot THEN render_dot(nodes, edges)
    ELSE render_mermaid(nodes, edges)

(***************************************************************************)
(* Document store (paperbox/db.py).  docs is the set of rows of the table  *)
(* docs, seq the last id AUTOINCREMENT gave out, docs_fts the index: the   *)
(* set of its entries, one for every token of a column of a row.           *)
(***************************************************************************)
\* the characters of a token of the index (tokenizer unicode61), and the
\* characters str.isalnum() accepts
TokenChars == LowerLetters \cup UpperLetters \cup Digits \cup JpChars

\* the maximal runs of token characters of s
RECURSIVE runs(_, _, _)
runs(s, cur, acc) ==
    IF s = <<>> THEN (IF cur = <<>> THEN acc ELSE acc \cup {cur})
    ELSE IF Head(s) \in TokenChars
    THEN runs(Tail(s), Append(cur, Head(s)), acc)
    ELSE runs(Tail(s), <<>>, IF cur = <<>> THEN acc ELSE acc \cup {cur})

\* the words of s as they are written
words_of(s) == runs(s, <<>>, {})

\* the tokens the index holds for s: its words, case folded
fts_tokens(s) == {lower(r) : r \in words_of(s)}

\* the index entries of a row: columns title and text
fts_entries(rowid, title, text) ==
    {[rowid |-> rowid, col |-> "title", token |-> t] : t \in fts_tokens(title)}
        \cup
    {[rowid |-> rowid, col |-> "text", token |-> t] : t \in fts_tokens(text)}

\* trigger docs_ai: INSERT INTO docs_fts(rowid, title, text)
docs_ai(fts, new) == fts \cup fts_entries(new.id, new.title, new.text)

\* an update trigger that forgets the delete command
docs_au_insert_only(fts, old, new) ==
    fts \cup fts_entries(new.id, new.title, new.text)

\* trigger docs_au: the delete command with the old values, then the
\* insert of the new ones
docs_au(fts, old, new) ==
    (fts \ fts_entries(old.id, old.title, old.text))
        \cup fts_entries(new.id, new.title, new.text)

\* an upsert that replaces the row of a stored hash by a new row
upsert_doc_replace(D, fts, s, source_path, title, sha256, text, created_at) ==
    LET found == {d \in D : d.sha256 = sha256}
        new == [id |-> s + 1, source_path |-> source_path,
                title |-> title, sha256 |-> sha256, text |-> text,
                created_at |-> created_at]
    IN  [docs |-> (D \ found) \cup {new},
         fts |-> {e \in fts : \A d \in found : e.rowid # d.id}
                     \cup fts_entries(new.id, new.title, new.text),
         seq |-> s + 1, doc_id |-> s + 1, inserted |-> found = {}]

\* upsert_doc on the store <<D, fts, s>>: the store after it, with the
\* returned (doc_id, inserted)
upsert_doc(D, fts, s, source_path, title, sha256, text, created_at) ==
    LET found == {d \in D : d.sha256 = sha256}
    IN  IF found # {}
        THEN LET old == CHOOSE d \in found : TRUE
                 new == [old EXCEPT !.source_path = source_path,
                                    !.title = title, !.text = text]
             IN  [docs |-> (D \ {old}) \cup {new},
                  fts |-> docs_au(fts, old, new),
                  seq |-> s, doc_id |-> old.id, inserted |-> FALSE]
        ELSE LET new == [id |-> s + 1, source_path |-> source_path,
                         title |-> title, sha256 |-> sha256, text |-> text,
                         created_at |-> created_at]
             IN  [docs |-> D \cup {new},
                  fts |-> docs_ai(fts, new),
                  seq |-> s + 1, doc_id |-> s + 1, inserted |-> TRUE]

\* list_docs: SELECT * FROM docs ORDER BY id ASC
RECURSIVE list_docs(_)
list_docs(D) ==
    IF D = {} THEN <<>>
    ELSE LET d == CHOOSE x \in D : \A y \in D : x.id <= y.id
         IN  <<d>> \o list_docs(D \ {d})

\* the words a MATCH expression reads as operators, in upper case only
Fts5Operators == {<<"A", "N", "D">>, <<"O", "R">>, <<"N", "O", "T">>}

\* the MATCH expression of a query of one word: a bareword that is no
\* operator is a term, matched by its folded token; an empty query, a
\* character outside the barewords and a bare operator are syntax errors
fts5_query(query) ==
    IF \/ query = <<>>
       \/ \E i \in 1..Len(query) : query[i] \notin TokenChars
       \/ query \in Fts5Operators
    THEN [kind |-> "OperationalError"]
    ELSE [kind |-> "term", token |-> lower(query)]

\* docs_fts JOIN docs d ON docs_fts.rowid = d.id WHERE docs_fts MATCH token
fts_match(D, fts, token) ==
    {d \in D : \E e \in fts : e.rowid = d.id /\ e.token = token}

\* search_docs(conn, query, top): the results it can return.  LIMIT keeps
\* the top best rows by bm25 (all of them for a negative top); which rows
\* those are is not modelled, every choice of that many matching rows is a
\* possible result.
search_docs(D, fts, query, top) ==
    LET q == fts5_query(query)
    IN  IF q.kind = "OperationalError" THEN {[kind |-> "OperationalError"]}
        ELSE LET rows == fts_match(D, fts, q.token)
                 n == IF top >= 0 /\ top < Cardinality(rows) THEN top
                      ELSE Cardinality(rows)
             IN  {[kind |-> "ok", hits |-> H] :
                     H \in {S \in SUBSET rows : Cardinality(S) = n}}

(***************************************************************************)
(* Ingestion (paperbox/ingest.py, paperbox/utils.py).  A path is its stem  *)
(* and its suffix; an input is a path that names no file, or a file: its   *)
(* path, whether it can be read, the hash of its bytes, and what the       *)
(* extractor of its suffix makes of them.                                  *)
(***************************************************************************)
\* text.replace of "\r\n" by "\n"
RECURSIVE replace_crlf(_)
replace_crlf(s) ==
    IF s = <<>> THEN <<>>
    ELSE IF Len(s) >= 2 /\ s[1] = CR /\ s[2] = NL
    THEN <<NL>> \o replace_crlf(SubSeq(s, 3, Len(s)))
    ELSE <<Head(s)>> \o replace_crlf(Tail(s))

\* re.sub of \n{3,} by two newlines; run is the number of newlines of the
\* run so far
RECURSIVE collapse_newlines(_, _)
collapse_newlines(s, run) ==
    IF s = <<>> THEN <<>>
    ELSE IF Head(s) = NL
    THEN (IF run >= 2 THEN <<>> ELSE <<NL>>)
             \o collapse_newlines(Tail(s), run + 1)
    ELSE <<Head(s)>> \o collapse_newlines(Tail(s), 0)

\* s.split("\n")
RECURSIVE split_nl(_, _)
split_nl(s, cur) ==
    IF s = <<>> THEN <<cur>>
    ELSE IF Head(s) = NL THEN <<cur>> \o split_nl(Tail(s), <<>>)
    ELSE split_nl(Tail(s), Append(cur, Head(s)))

\* s.splitlines(): a line ends at every boundary, "\r\n" is one boundary,
\* and no empty line follows a final boundary
RECURSIVE splitlines(_, _, _)
splitlines(s, cur, open) ==
    IF s = <<>> THEN (IF open THEN <<cur>> ELSE <<>>)
    ELSE IF Len(s) >= 2 /\ s[1] = CR /\ s[2] = NL
    THEN <<cur>> \o splitlines(SubSeq(s, 3, Len(s)), <<>>, FALSE)
    ELSE IF Head(s) \in LineBoundaries
    THEN <<cur>> \o splitlines(Tail(s), <<>>, FALSE)
    ELSE splitlines(Tail(s), Append(cur, Head(s)), TRUE)

normalize_whitespace(text) ==
    LET unix == replace(replace_crlf(text), CR, <<NL>>)
        lines == split_nl(collapse_newlines(unix, 0), <<>>)
    IN  strip(join(<<NL>>, [i \in 1..Len(lines) |-> strip(lines[i])]))

\* the longest line guess_title takes, and the fewest alphanumerics
TitleMaxLen == 140
TitleMinAlnum == 3

\* the first line of lines that serves as a title, or the stem
RECURSIVE first_title(_, _)
first_title(lines, stem) ==
    IF lines = <<>> THEN stem
    ELSE LET t == strip(Head(lines))
         IN  IF t = <<>> THEN first_title(Tail(lines), stem)
             ELSE IF Len(t) > TitleMaxLen THEN first_title(Tail(lines), stem)
             ELSE IF Cardinality({i \in 1..Len(t) : t[i] \in TokenChars})
                         < TitleMinAlnum
             THEN first_title(Tail(lines), stem)
             ELSE t

guess_title(path, text) == first_title(splitlines(text, <<>>, FALSE), path.stem)

SUPPORTED_EXTS ==
    {<<".", "p", "d", "f">>, <<".", "d", "o", "c", "x">>,
     <<".", "h", "t", "m", "l">>, <<".", "h", "t", "m">>,
     <<".", "t", "x", "t">>, <<".", "m", "d">>, <<".", "r", "s", "t">>}

\* the suffixes get_extractor has an extractor for
ExtractorExts ==
    {<<".", "p", "d", "f">>, <<".", "d", "o", "c", "x">>,
     <<".", "h", "t", "m", "l">>, <<".", "h", "t", "m">>,
     <<".", "t", "x", "t">>, <<".", "m", "d">>, <<".", "r", "s", "t">>}

is_file(p) == p.kind = "file"

\* iter_files over inputs that are no directories: the files among them
iter_files(inputs) == SelectSeq(inputs, is_file)

\* str(path.resolve()), under the root directory
resolve(path) == <<"/">> \o path.stem \o path.suffix

skipped_result(st, path, reason) ==
    [st EXCEPT !.results =
        Append(@, [path |-> path, skipped |-> TRUE, reason |-> reason])]

\* the body of the loop of ingest_paths for one file, on the store and the
\* results so far
ingest_file(st, f, now) ==
    IF lower(f.path.suffix) \notin SUPPORTED_EXTS
    THEN skipped_result(st, f.path, "unsupported extension")
    ELSE IF lower(f.path.suffix) \notin ExtractorExts
    THEN skipped_result(st, f.path, "no extractor")
    ELSE IF ~f.readable
    THEN skipped_result(st, f.path, "hash failed")
    ELSE IF ~f.extracted.ok
    THEN skipped_result(st, f.path, "extract failed")
    ELSE LET text == normalize_whitespace(f.extracted.raw)
         IN  IF strip(text) = <<>>
             THEN skipped_result(st, f.path, "empty text")
             ELSE LET u == upsert_doc(st.docs, st.fts, st.seq,
                                      resolve(f.path),
                                      guess_title(f.path, text),
                                      f.sha256, text, now)
                  IN  [docs |-> u.docs, fts |-> u.fts, seq |-> u.seq,
                       results |->
                           Append(st.results,
                                  [path |-> f.path, skipped |-> FALSE,
                                   reason |-> "ok", doc_id |-> u.doc_id,
                                   inserted |-> u.inserted])]

RECURSIVE ingest_loop(_, _, _)
ingest_loop(st, files, now) ==
    IF files = <<>> THEN st
    ELSE ingest_loop(ingest_file(st, Head(files), now), Tail(files), now)

\* ingest_paths(project_dir, inputs) on the store <<D, fts, s>> at the
\* clock reading now: the store after it and the results
ingest_paths(D, fts, s, inputs, now) ==
    ingest_loop([docs |-> D, fts |-> fts, seq |-> s, results |-> <<>>],
                iter_files(inputs), now)

(***************************************************************************)
(* The graph command (paperbox/cli.py)                                     *)
(***************************************************************************)
\* the largest r with r * r <= n, between lo and hi
RECURSIVE isqrt(_, _, _)
isqrt(n, lo, hi) ==
    IF lo >= hi THEN lo
    ELSE LET mid == (lo + hi + 1) \div 2
         IN  IF mid * mid <= n THEN isqrt(n, mid, hi)
             ELSE isqrt(n, lo, mid - 1)

\* a cosine as a number of hundredths: exact when it is 0, and cut to the
\* hundredth, with the integer square root (at most 46340 in 32 bits),
\* when it is not
hundredths(s) ==
    IF s.dot = 0 THEN 0
    ELSE LET h == (100 * s.dot) \div isqrt(s.na * s.nb, 1, 46340)
         IN  IF h > 100 THEN 100 ELSE h

\* the f-string of a label: the id of the document, a colon, a space, the
\* title
node_label(d) == decimal(d.id) \o <<":", SP>> \o d.title

\* graph(project, threshold, format, max_nodes) on the table D: how the
\* command ends, whether it opened the database, and what it printed
graph(D, threshold, format, max_nodes) ==
    LET fmt == lower(format)
    IN  IF fmt \notin {f_mermaid, f_dot}
        THEN [kind |-> "Exit", code |-> 2, connected |-> FALSE,
              printed |-> "nothing"]
        ELSE IF list_docs(D) = <<>>
        THEN [kind |-> "Exit", code |-> 0, connected |-> TRUE,
              printed |-> "No docs found."]
        ELSE LET ds == prefix(list_docs(D), max_nodes)
                 sim == pairwise_similarity([i \in 1..Len(ds) |-> ds[i].text])
             IN  IF sim.kind # "ok"
                 THEN [kind |-> sim.kind, connected |-> TRUE,
                       printed |-> "nothing"]
                 ELSE [kind |-> "ok", connected |-> TRUE,
                       printed |-> "graph",
                       graph |->
                           render([i \in 1..Len(ds) |->
                                      [id |-> i - 1,
                                       label |-> node_label(ds[i])]],
                                  build_edges(
                                      [a \in 1..Len(ds) |->
                                          [b \in 1..Len(ds) |->
                                              hundredths(sim.sim[a][b])]],
                                      threshold),
                                  fmt)]

(***************************************************************************)
(* The texts the engine is called with                                     *)
(***************************************************************************)
w_the == <<"t", "h", "e">>
w_cat == <<"c", "a", "t">>
w_sat == <<"s", "a", "t">>
w_on == <<"o", "n">>
w_mat == <<"m", "a", "t">>
w_dog == <<"d", "o", "g">>

\* "the cat sat on the mat", "the dog sat on the mat": 22 characters each
the_cat == join(<<SP>>, <<w_the, w_cat, w_sat, w_on, w_the, w_mat>>)
the_dog == join(<<SP>>, <<w_the, w_dog, w_sat, w_on, w_the, w_mat>>)
\* "on on on on on on on": 20 characters, stop words only
only_stop == join(<<SP>>, <<w_on, w_on, w_on, w_on, w_on, w_on, w_on>>)

\* A text to summarize: up to MaxPieces fragments, a separator between two
Fragments == {the_cat, the_dog, only_stop, w_cat}
Separators == {<<".", SP>>, <<NL>>, <<CR>>}
MaxPieces == 3
MaxK == 3

RECURSIVE TextsOf(_)
TextsOf(n) ==
    IF n = 0 THEN {<<>>}
    ELSE IF n = 1 THEN Fragments
    ELSE {t \o s \o f : t \in TextsOf(n - 1), s \in Separators, f \in Fragments}

SummaryTexts == UNION {TextsOf(n) : n \in 0..MaxPieces}

\* A text to split: up to MaxFragments fragments, a separator between two.
\* The fragments have 0, 3, 19 and 20 characters; a space as separator
\* makes one longer fragment of two.
on_19 == SubSeq(only_stop, 1, Len(only_stop) - 1)
SplitFragments == {<<>>, w_cat, on_19, only_stop}
SplitSeparators == {<<SP>>, <<NL>>, <<"?", NL, SP>>}
MaxFragments == 3

RECURSIVE SplitTextsOf(_)
SplitTextsOf(n) ==
    IF n = 0 THEN {<<>>}
    ELSE IF n = 1 THEN SplitFragments
    ELSE {t \o s \o f : t \in SplitTextsOf(n - 1), s \in SplitSeparators,
                        f \in SplitFragments}

SplitTexts == UNION {SplitTextsOf(n) : n \in 0..MaxFragments}

\* A text to tokenize: up to MaxJp Japanese characters, then the first
\* characters of a Latin text, up to MaxTextLen characters in all; two
\* Japanese characters and 23 others are a ratio of exactly 0.08
MaxJp == 2
MaxTextLen == 26
w_The == <<"T", "h", "e">>
latin_text ==
    <<SP>> \o join(<<SP>>, <<w_The, <<"C", "a", "t">>, w_sat, w_on, w_the,
                             w_mat, w_cat, w_dog>>)

TokenizeTexts ==
    {[i \in 1..j |-> "u3042"] \o SubSeq(latin_text, 1, n - j) :
        n \in 0..MaxTextLen, j \in 0..MaxJp}

\* A text to compare: up to MaxWords words with a space between two, or one
\* of the two sentences above
CompareWords == {w_the, w_cat, w_dog}
MaxWords == 2

RECURSIVE WordTexts(_)
WordTexts(n) ==
    IF n = 0 THEN {<<>>}
    ELSE IF n = 1 THEN CompareWords
    ELSE {t \o <<SP>> \o w : t \in WordTexts(n - 1), w \in CompareWords}

CompareTexts == UNION {WordTexts(n) : n \in 0..MaxWords} \cup {the_cat, the_dog}

\* top_terms: the default, or a small number that cuts the lists
DefaultTopTerms == 15
MaxTopTerms == 1
TopTermsChoices == (1..MaxTopTerms) \cup {DefaultTopTerms}

\* The documents of a graph: up to MaxDocs texts
PairTexts == {<<>>, w_on, w_cat, w_dog, w_cat \o <<SP>> \o w_dog}
MaxDocs == 3

RECURSIVE TextLists(_)
TextLists(n) ==
    IF n = 0 THEN {<<>>}
    ELSE {Append(l, t) : l \in TextLists(n - 1), t \in PairTexts}

\* A similarity matrix: symmetric, 100 on the diagonal, the entries above
\* it any of the weight levels 0, .., 100
MaxNodes == 3
MaxWeight == 2
WeightLevels == {(100 * i) \div MaxWeight : i \in 0..MaxWeight}
DefaultThreshold == 25
Thresholds == WeightLevels \cup {DefaultThreshold}

PairsBelow(n) == {p \in (1..n) \X (1..n) : p[1] < p[2]}

Matrices(n) ==
    {[i \in 1..n |->
         [j \in 1..n |->
             IF i = j THEN 100
             ELSE IF i < j THEN u[<<i, j>>] ELSE u[<<j, i>>]]] :
       u \in [PairsBelow(n) -> WeightLevels]}

\* The nodes of a rendering: up to MaxRenderNodes labels of up to MaxLabel
\* characters, with quotes and backslashes among them
LabelChars == {"a", QUOTE, BACKSLASH}
MaxLabel == 2
MaxRenderNodes == 2

RECURSIVE LabelsOf(_)
LabelsOf(n) ==
    IF n = 0 THEN {<<>>}
    ELSE {Append(l, c) : l \in LabelsOf(n - 1), c \in LabelChars}

Labels == UNION {LabelsOf(n) : n \in 0..MaxLabel}

NodeLists ==
    UNION {[1..n -> Labels] : n \in 1..MaxRenderNodes}

nodes_of(labels) == [i \in 1..Len(labels) |-> [id |-> i - 1, label |-> labels[i]]]

EdgeLists == {<<>>, <<[a |-> 0, b |-> 1, weight |-> 50]>>}

Formats == {f_mermaid, f_dot, f_DOT, f_svg}

(***************************************************************************)
(* The files a project is fed, the queries and the graph options           *)
(***************************************************************************)
p_a_txt == [stem |-> <<"a">>, suffix |-> <<".", "t", "x", "t">>]
p_b_HTM == [stem |-> <<"b">>, suffix |-> <<".", "H", "T", "M">>]
p_d_exe == [stem |-> <<"d">>, suffix |-> <<".", "e", "x", "e">>]
\* the paths of a supported suffix; p_d_exe is the unsupported one
Paths == {p_a_txt, p_b_HTM}

HtmlExts == {<<".", "h", "t", "m", "l">>, <<".", "h", "t", "m">>}

\* The contents a file can have: the hash of the bytes, and what the text
\* extractor and the HTML extractor return for them (ok = FALSE: the
\* extractor raises).  The hash settles the bytes, so two files of one hash
\* differ in their extracted text only through their suffix.
c_cat ==
    [sha256 |-> "h1",
     text |-> [ok |-> TRUE, raw |-> <<SP, "C", "a", "t", CR, NL>>],
     html |-> [ok |-> TRUE, raw |-> <<"!", "!">>]]
c_dog ==
    [sha256 |-> "h2",
     text |-> [ok |-> TRUE,
               raw |-> <<"!", "!", NL, NL, NL, NL, "O", "R", SP,
                         "d", "o", "g">>],
     html |-> [ok |-> FALSE]]
c_blank ==
    [sha256 |-> "h3",
     text |-> [ok |-> TRUE, raw |-> <<SP, CR, NL, TAB>>],
     html |-> [ok |-> TRUE, raw |-> <<>>]]
Contents == {c_cat, c_dog, c_blank}

file_of(path, c) ==
    [kind |-> "file", path |-> path, readable |-> TRUE,
     sha256 |-> c.sha256,
     extracted |-> IF lower(path.suffix) \in HtmlExts THEN c.html ELSE c.text]

unreadable(path) ==
    [kind |-> "file", path |-> path, readable |-> FALSE,
     sha256 |-> "", extracted |-> [ok |-> FALSE]]

missing == [kind |-> "missing"]

Files ==
    {missing, file_of(p_d_exe, c_cat)}
        \cup {unreadable(p) : p \in Paths}
        \cup {file_of(p, c) : p \in Paths, c \in Contents}

\* what a caller of upsert_doc passes for a file it has read: the resolved
\* path, the title and the normalized text, the hash
upsert_args(f) ==
    [source_path |-> resolve(f.path),
     title |-> guess_title(f.path, normalize_whitespace(f.extracted.raw)),
     sha256 |-> f.sha256,
     text |-> normalize_whitespace(f.extracted.raw)]

UpsertArgs ==
    {upsert_args(f) :
        f \in {g \in {file_of(p, c) : p \in Paths, c \in {c_cat, c_dog}} :
                  g.extracted.ok}}

MaxInputs == 2
InputLists == UNION {[1..n -> Files] : n \in 0..MaxInputs}

\* the readings of the clock, in seconds
MaxClock == 2

\* queries of one word, as the documents write them and folded, and one
\* that is no word
q_Cat == <<"C", "a", "t">>
q_OR == <<"O", "R">>
q_b == <<"b">>
Queries == {q_Cat, w_cat, w_dog, q_OR, q_b, <<"!", "!">>}
MaxTop == 2

\* --max-nodes
MaxShown == 2

(***************************************************************************)
(* The engine: every call is a function of its arguments                   *)
(***************************************************************************)
NoCall == [op |-> "none"]
NoResult == [kind |-> "none"]

CallSplitSentences ==
    /\ phase = "idle"
    /\ \E text \in SplitTexts :
          /\ call' = [op |-> "split_sentences", text |-> text]
          /\ result' = [kind |-> "ok", sents |-> split_sentences(text)]
    /\ phase' = "returned"
    /\ UNCHANGED <<docs, docs_fts, seq>>

\* tokenize(text); the result also records the branch taken
CallTokenize ==
    /\ phase = "idle"
    /\ \E text \in TokenizeTexts :
          /\ call' = [op |-> "tokenize", text |-> text]
          /\ result' = [kind |-> "ok", tokens |-> tokenize(text),
                        japanese |-> is_probably_japanese(text)]
    /\ phase' = "returned"
    /\ UNCHANGED <<docs, docs_fts, seq>>

CallSummarize ==
    /\ phase = "idle"
    /\ \E text \in SummaryTexts, k \in 1..MaxK :
          /\ call' = [op |-> "summarize", text |-> text, k |-> k]
          /\ result' = summarize(text, k)
    /\ phase' = "returned"
    /\ UNCHANGED <<docs, docs_fts, seq>>

CallCompare ==
    /\ phase = "idle"
    /\ \E text1 \in CompareTexts, text2 \in CompareTexts,
          top_terms \in TopTermsChoices :
          /\ call' = [op |-> "compare_texts", text1 |-> text1,
                      text2 |-> text2, top_terms |-> top_terms]
          /\ result' \in compare_texts(text1, text2, top_terms)
    /\ phase' = "returned"
    /\ UNCHANGED <<docs, docs_fts, seq>>

CallPairwise ==
    /\ phase = "idle"
    /\ \E n \in 1..MaxDocs :
          \E texts \in TextLists(n) :
              /\ call' = [op |-> "pairwise_similarity", texts |-> texts]
              /\ result' = pairwise_similarity(texts)
    /\ phase' = "returned"
    /\ UNCHANGED <<docs, docs_fts, seq>>

CallBuildEdges ==
    /\ phase = "idle"
    /\ \E n \in 0..MaxNodes :
          \E sim \in Matrices(n), threshold \in Thresholds :
              /\ call' = [op |-> "build_edges", sim |-> sim,
                          threshold |-> threshold]
              /\ result' = [kind |-> "ok", edges |-> build_edges(sim, threshold)]
    /\ phase' = "returned"
    /\ UNCHANGED <<docs, docs_fts, seq>>

CallRenderDot ==
    /\ phase = "idle"
    /\ \E labels \in NodeLists, edges \in EdgeLists :
          /\ call' = [op |-> "render_dot", nodes |-> nodes_of(labels),
                      edges |-> edges]
          /\ result' = render_dot(nodes_of(labels), edges)
    /\ phase' = "returned"
    /\ UNCHANGED <<docs, docs_fts, seq>>

CallRender ==
    /\ phase = "idle"
    /\ \E labels \in {<<w_cat>>, <<w_cat, w_dog>>}, edges \in EdgeLists,
          fmt \in Formats :
          /\ call' = [op |-> "render", nodes |-> nodes_of(labels),
                      edges |-> edges, fmt |-> fmt]
          /\ result' = render(nodes_of(labels), edges, fmt)
    /\ phase' = "returned"
    /\ UNCHANGED <<docs, docs_fts, seq>>

CallIngestPaths ==
    /\ phase = "idle"
    /\ \E inputs \in InputLists, now \in 1..MaxClock :
          \E st \in {ingest_paths(docs, docs_fts, seq, inputs, now)} :
              /\ call' = [op |-> "ingest_paths", inputs |-> inputs,
                          now |-> now]
              /\ result' = [kind |-> "ok", results |-> st.results]
              /\ docs' = st.docs
              /\ docs_fts' = st.fts
              /\ seq' = st.seq
    /\ phase' = "returned"

CallUpsertDoc ==
    /\ phase = "idle"
    /\ \E a \in UpsertArgs, now \in 1..MaxClock :
          LET u == upsert_doc(docs, docs_fts, seq, a.source_path, a.title,
                              a.sha256, a.text, now)
          IN  /\ call' = [op |-> "upsert_doc", source_path |-> a.source_path,
                          title |-> a.title, sha256 |-> a.sha256,
                          text |-> a.text, created_at |-> now]
              /\ result' = [kind |-> "ok", doc_id |-> u.doc_id,
                            inserted |-> u.inserted]
              /\ docs' = u.docs
              /\ docs_fts' = u.fts
              /\ seq' = u.seq
    /\ phase' = "returned"

CallSearchDocs ==
    /\ phase = "idle"
    /\ \E query \in Queries, top \in 1..MaxTop :
          /\ call' = [op |-> "search_docs", query |-> query, top |-> top]
          /\ result' \in search_docs(docs, docs_fts, query, top)
    /\ phase' = "returned"
    /\ UNCHANGED <<docs, docs_fts, seq>>

CallGraph ==
    /\ phase = "idle"
    /\ \E format \in Formats, threshold \in Thresholds,
          max_nodes \in 1..MaxShown :
          /\ call' = [op |-> "graph", format |-> format,
                      threshold |-> threshold, max_nodes |-> max_nodes]
          /\ result' = graph(docs, threshold, format, max_nodes)
    /\ phase' = "returned"
    /\ UNCHANGED <<docs, docs_fts, seq>>

\* the caller takes the result; nothing of the call stays behind
Return ==
    /\ phase = "returned"
    /\ phase' = "idle"
    /\ call' = NoCall
    /\ result' = NoResult
    /\ UNCHANGED <<docs, docs_fts, seq>>

Init ==
    /\ phase = "idle"
    /\ call = NoCall
    /\ result = NoResult
    /\ docs = {}
    /\ docs_fts = {}
    /\ seq = 0

Next ==
    \/ CallSplitSentences
    \/ CallTokenize
    \/ CallSummarize
    \/ CallCompare
    \/ CallPairwise
    \/ CallBuildEdges
    \/ CallRenderDot
    \/ CallRender
    \/ Return

Spec == Init /\ [][Next]_vars

\* a project: files are ingested, the index is searched, the graph is drawn
StoreNext ==
    \/ CallIngestPaths
    \/ CallUpsertDoc
    \/ CallSearchDocs
    \/ CallGraph
    \/ CallRender
    \/ Return

StoreSpec == Init /\ [][StoreNext]_vars

(***************************************************************************)
(* Properties of the summarizer                                            *)
(***************************************************************************)
Summarized == phase = "returned" /\ call.op = "summarize"

min2(a, b) == IF a < b THEN a ELSE b

\* no line boundary of splitlines() other than "\n" occurs in s
only_newlines(s) == \A i \in 1..Len(s) : s[i] \in LineBoundaries => s[i] = NL

\* C1 as stated: for every text and every k > 0 the summary has at most k
\* lines by str.splitlines(), and at most as many as split_sentences(text)
\* gives, on the scored path and on the head path.
C1_SplitlinesBound ==
    Summarized =>
        /\ splitlines_count(result.out, 1, FALSE) <= call.k
        /\ splitlines_count(result.out, 1, FALSE)
               <= Len(split_sentences(call.text))

\* C1 amended: the summary is min(k, number of sentences) sentences joined
\* by "\n", so it has at most k and at most that many "\n"-separated lines,
\* on both paths; splitlines() gives the same count when the text holds no
\* line boundary other than "\n".
C1_SummaryBound ==
    Summarized =>
        LET n == Len(split_sentences(call.text))
        IN  /\ newline_parts(result.out) <= call.k
            /\ newline_parts(result.out) <= n
            /\ newline_parts(result.out) = min2(call.k, n)
            /\ only_newlines(call.text) =>
                   splitlines_count(result.out, 1, FALSE)
                       = newline_parts(result.out)

\* a summary cut to k < n sentences, one of which holds a "\r": k lines by
\* "\n", more than k by splitlines()
C1_Witness ==
    /\ Summarized
    /\ result.path = "scored"
    /\ call.k < Len(result.sents)
    /\ newline_parts(result.out) = call.k
    /\ splitlines_count(result.out, 1, FALSE) > call.k

\* s.split("\n")
RECURSIVE split_newline(_, _, _)
split_newline(s, i, start) ==
    IF i > Len(s) THEN <<SubSeq(s, start, Len(s))>>
    ELSE IF s[i] = NL
    THEN <<SubSeq(s, start, i - 1)>> \o split_newline(s, i + 1, i + 1)
    ELSE split_newline(s, i + 1, start)

selected(r) == {r.top_idx[j].i : j \in 1..Len(r.top_idx)}

\* C2: the lines of the summary are sentences of the text in strictly
\* increasing index, whatever their scores; the sentences selected are the
\* k best by score, and of two sentences with equal scores the one with the
\* lower index is selected first.
C2_OrderPreserved ==
    (Summarized /\ result.path = "scored") =>
        LET lines == split_newline(result.out, 1, 1)
            n == Len(result.sents)
        IN  /\ Len(lines) = Len(result.top_idx)
            /\ \A j \in 1..Len(lines) :
                   lines[j] = result.sents[result.top_idx[j].i]
            /\ \A j \in 1..(Len(lines) - 1) :
                   result.top_idx[j].i < result.top_idx[j + 1].i
            /\ \A a \in selected(result), b \in (1..n) \ selected(result) :
                   \/ score_gt(result.scored[a].score, result.scored[b].score)
                   \/ /\ score_eq(result.scored[a].score,
                                  result.scored[b].score)
                      /\ a < b

\* two sentences selected out of three, the later one with the greater
\* score, and a sentence left out that ties with one selected
C2_Witness ==
    /\ Summarized
    /\ result.path = "scored"
    /\ Len(result.top_idx) = 2
    /\ Len(result.sents) = 3
    /\ score_gt(result.top_idx[2].score, result.top_idx[1].score)
    /\ \E b \in (1..3) \ selected(result) :
           score_eq(result.scored[b].score, result.top_idx[1].score)

(***************************************************************************)
(* Properties of the comparator                                            *)
(***************************************************************************)
Compared == phase = "returned" /\ call.op = "compare_texts"

tokens1 == token_set(tokenize(call.text1))
tokens2 == token_set(tokenize(call.text2))

\* C3 as stated: two texts that share surviving terms and have each a term
\* of its own (the cat ... / the dog ...) compare with a similarity strictly
\* between 0 and 1, the shared terms in common_terms and each own term in
\* the unique list of its text only (top_terms at its default cuts nothing).
C3_SharedTermsAreCommon ==
    (/\ Compared
     /\ call.top_terms = DefaultTopTerms
     /\ tokens1 \cap tokens2 # {}
     /\ tokens1 \ tokens2 # {}
     /\ tokens2 \ tokens1 # {}) =>
        /\ result.kind = "ok"
        /\ ~sim_is_zero(result.similarity)
        /\ ~sim_is_one(result.similarity)
        /\ sim_in_unit_interval(result.similarity)
        /\ tokens1 \cap tokens2 \subseteq result.common_terms
        /\ \A t \in tokens1 \ tokens2 :
               /\ t \in result.doc1_unique_terms
               /\ t \notin result.doc2_unique_terms
               /\ t \notin result.common_terms
        /\ \A t \in tokens2 \ tokens1 :
               /\ t \in result.doc2_unique_terms
               /\ t \notin result.doc1_unique_terms
               /\ t \notin result.common_terms

\* C4 as stated: compare_texts(t, t) returns for every non-empty t, with a
\* similarity of 1.0, and every similarity returned lies in [0, 1].
C4_SelfSimilarityIsOne ==
    Compared =>
        /\ (call.text1 = call.text2 /\ call.text1 # <<>>) =>
               (result.kind = "ok" /\ sim_is_one(result.similarity))
        /\ result.kind = "ok" => sim_in_unit_interval(result.similarity)

\* C5: no term is in more than one of common_terms, doc1_unique_terms and
\* doc2_unique_terms of a result.
C5_BucketsDisjoint ==
    (Compared /\ result.kind = "ok") =>
        /\ result.common_terms \cap result.doc1_unique_terms = {}
        /\ result.common_terms \cap result.doc2_unique_terms = {}
        /\ result.doc1_unique_terms \cap result.doc2_unique_terms = {}

\* a comparison of two texts that share a token and have each a term of
\* its own in its unique list
C5_Witness ==
    /\ Compared
    /\ result.kind = "ok"
    /\ tokens1 \cap tokens2 # {}
    /\ result.doc1_unique_terms # {}
    /\ result.doc2_unique_terms # {}

\* C7 as stated: no call raises on empty or token-free text.  summarize
\* gives the empty string or the head sentences; compare_texts and
\* pairwise_similarity give a result with similarity 0 and no term for a
\* text that tokenizes to nothing, also when every text does.
C7_NeverRaises ==
    /\ (Summarized /\ tokenize(call.text) = <<>>) =>
           result.path \in {"empty", "head"}
    /\ (Compared /\ (tokens1 = {} \/ tokens2 = {})) =>
           /\ result.kind = "ok"
           /\ sim_is_zero(result.similarity)
           /\ result.common_terms = {}
           /\ tokens1 = {} => result.doc1_unique_terms = {}
           /\ tokens2 = {} => result.doc2_unique_terms = {}
    /\ (phase = "returned" /\ call.op = "pairwise_similarity") =>
           \A a \in 1..Len(call.texts) :
               tokenize(call.texts[a]) = <<>> =>
                   /\ result.kind = "ok"
                   /\ \A b \in 1..Len(call.texts) :
                          sim_is_zero(result.sim[a][b])

(***************************************************************************)
(* Properties of the graph builder                                         *)
(***************************************************************************)
Built == phase = "returned" /\ call.op = "build_edges"

edge_pairs(edges) == {<<edges[k].a, edges[k].b>> : k \in 1..Len(edges)}

\* every edge is a pair i < j of the matrix with its weight, a weight of at
\* least the threshold, and a higher threshold gives no edge that a lower
\* one does not
edges_sound(edges, sim, threshold) ==
    /\ \A k \in 1..Len(edges) :
           /\ 0 <= edges[k].a
           /\ edges[k].a < edges[k].b
           /\ edges[k].b < Len(sim)
           /\ edges[k].weight = sim[edges[k].a + 1][edges[k].b + 1]
           /\ edges[k].weight >= threshold
    /\ \A t \in Thresholds :
           t >= threshold =>
               edge_pairs(build_edges(sim, t)) \subseteq edge_pairs(edges)

\* C6 as stated: the edges are strictly sorted by descending weight, each
\* heavier than the next; they are pairs i < j with weight >= threshold,
\* and raising the threshold adds none.
C6_StrictlyDescending ==
    Built =>
        /\ \A k \in 1..(Len(result.edges) - 1) :
               result.edges[k].weight > result.edges[k + 1].weight
        /\ edges_sound(result.edges, call.sim, call.threshold)

\* C6 amended: the edges are sorted by descending weight, no edge lighter
\* than the next, and edges of equal weight stay in the order of the loop
\* (by i, then j); they are exactly the pairs i < j with weight >=
\* threshold, once each, and raising the threshold adds none.
C6_Descending ==
    Built =>
        /\ \A k \in 1..(Len(result.edges) - 1) :
               LET e == result.edges[k]
                   f == result.edges[k + 1]
               IN  \/ e.weight > f.weight
                   \/ /\ e.weight = f.weight
                      /\ (e.a < f.a \/ (e.a = f.a /\ e.b < f.b))
        /\ edges_sound(result.edges, call.sim, call.threshold)
        /\ edge_pairs(result.edges) =
               {<<p[1] - 1, p[2] - 1>> : p \in
                   {q \in PairsBelow(Len(call.sim)) :
                       call.sim[q[1]][q[2]] >= call.threshold}}
        /\ Cardinality(edge_pairs(result.edges)) = Len(result.edges)

\* three edges, two of them of one weight, above a threshold that leaves
\* none out
C6_Witness ==
    /\ Built
    /\ Len(result.edges) = 3
    /\ result.edges[1].weight > result.edges[2].weight
    /\ result.edges[2].weight = result.edges[3].weight
    /\ call.threshold > 0

(***************************************************************************)
(* Properties of the rendering                                             *)
(***************************************************************************)
\* the characters between label=" and "]; in the line of node i
label_attribute(i) ==
    LET line == result.lines[3 + i]
    IN  SubSeq(line, Len(dot_node_head(call.nodes[i])) + 1,
               Len(line) - Len(dot_node_tail))

\* C8 as stated: in the output of render_dot every quote of a node label is
\* escaped, a backslash before it, so the label attribute holds no quote
\* without one.
C8_QuotesEscaped ==
    (phase = "returned" /\ call.op = "render_dot") =>
        \A i \in 1..Len(call.nodes) :
            LET attr == label_attribute(i)
            IN  \A k \in 1..Len(attr) :
                    attr[k] = QUOTE => (k > 1 /\ attr[k - 1] = BACKSLASH)

(***************************************************************************)
(* Properties of the format selector                                       *)
(***************************************************************************)
unknown_format(fmt) == lower(fmt) \notin {f_mermaid, f_dot}

\* C9 as stated: a format that is neither mermaid nor dot is an error and
\* is never rendered: render with it produces no graph output, and the
\* graph command rejects it before it reads any document.
C9_UnknownFormatRejected ==
    /\ (phase = "returned" /\ call.op = "render" /\ unknown_format(call.fmt))
           => result.kind # "ok"
    /\ (phase = "returned" /\ call.op = "graph" /\ unknown_format(call.format))
           => /\ result.kind = "Exit"
              /\ result.code = 2
              /\ ~result.connected
              /\ result.printed = "nothing"

(***************************************************************************)
(* Properties of the store                                                 *)
(***************************************************************************)
Ingested == phase = "returned" /\ call.op = "ingest_paths"
Searched == phase = "returned" /\ call.op = "search_docs"

\* the index holds the entries of the current title and text of every row,
\* and no other
fts_mirrors_docs ==
    docs_fts = UNION {fts_entries(d.id, d.title, d.text) : d \in docs}

\* a supported file that is read and extracted to a text that is not blank
ingestible(f) ==
    /\ lower(f.path.suffix) \in SUPPORTED_EXTS
    /\ f.readable
    /\ f.extracted.ok
    /\ strip(normalize_whitespace(f.extracted.raw)) # <<>>

\* one result for every file of the call, in order; it is not skipped
\* exactly when the file is ingestible, and then it names the row of the
\* hash of the file
one_result_per_file ==
    Ingested =>
        LET files == iter_files(call.inputs)
            res == result.results
        IN  /\ Len(res) = Len(files)
            /\ \A k \in 1..Len(res) :
                   /\ res[k].path = files[k].path
                   /\ res[k].skipped = ~ingestible(files[k])
                   /\ ~res[k].skipped =>
                          \E d \in docs : /\ d.id = res[k].doc_id
                                          /\ d.sha256 = files[k].sha256

\* the rows whose current title or text holds the token
holding(token) ==
    {d \in docs : token \in fts_tokens(d.title) \cup fts_tokens(d.text)}

is_word(q) == q # <<>> /\ \A i \in 1..Len(q) : q[i] \in TokenChars

\* C10 as stated: the index mirrors the table after any sequence of
\* ingests; a supported file with non-empty text gets exactly one result,
\* not skipped; and a search for a word of the current title or text of a
\* document returns at least one hit.
C10_EveryWordIsFound ==
    /\ fts_mirrors_docs
    /\ one_result_per_file
    /\ (Searched /\ \E d \in docs :
                       call.query \in words_of(d.title) \cup words_of(d.text))
           => (result.kind = "ok" /\ result.hits # {})

\* C10 amended: the index mirrors the table; every file of a call gets
\* exactly one result, not skipped exactly when it is ingestible; a search
\* for a word that is no upper-case operator returns rows that hold the
\* word in their current title or text, as many as top allows, so at least
\* one when a document holds it; a search for AND, OR or NOT in upper case
\* raises, whatever the documents hold.
C10_IndexMirrorsDocs ==
    /\ fts_mirrors_docs
    /\ one_result_per_file
    /\ Searched =>
           IF is_word(call.query) /\ call.query \notin Fts5Operators
           THEN /\ result.kind = "ok"
                /\ result.hits \subseteq holding(lower(call.query))
                /\ Cardinality(result.hits) =
                       min2(call.top,
                            Cardinality(holding(lower(call.query))))
           ELSE result.kind = "OperationalError"

\* one call that inserts a document and then updates it from a file of the
\* same bytes under another suffix: the row has the new title, and the
\* index none of the old words
C10_Witness ==
    /\ Ingested
    /\ Len(result.results) = 2
    /\ ~result.results[1].skipped /\ result.results[1].inserted
    /\ ~result.results[2].skipped /\ ~result.results[2].inserted
    /\ result.results[1].doc_id = result.results[2].doc_id
    /\ \E d \in docs :
           /\ d.id = result.results[2].doc_id
           /\ d.title = q_b
           /\ holding(w_cat) = {}
           /\ d \in holding(q_b)

(***************************************************************************)
(* Properties of the sentence splitter                                     *)
(***************************************************************************)
Split == phase = "returned" /\ call.op = "split_sentences"

\* the non-empty trimmed fragments of a text
fragments(text) == raw_of(re_split(text, 1, 1, <<>>))

\* the fragments that start a sentence: the first one, and every later one
\* of at least MergeLen characters
sentence_starts(raw) ==
    {j \in 1..Len(raw) : j = 1 \/ Len(raw[j]) >= MergeLen}

\* the fragment behind the last one of the sentence that starts at j
next_start(raw, j) ==
    IF \E m \in sentence_starts(raw) : m > j
    THEN CHOOSE m \in sentence_starts(raw) :
             m > j /\ \A x \in sentence_starts(raw) : x > j => m <= x
    ELSE Len(raw) + 1

\* s begins with p
starts_with(s, p) == Len(p) <= Len(s) /\ SubSeq(s, 1, Len(p)) = p

\* C11: split_sentences merges every fragment shorter than 20 characters
\* into the sentence before it: only the first sentence can be shorter
\* than 20 characters, every later sentence begins with a fragment of at
\* least 20 characters, the sentences joined by a space are the fragments
\* joined by a space (every fragment once, in order), each sentence being
\* a start fragment with the short fragments behind it, and the empty text
\* gives the empty sequence.
C11_ShortFragmentsMerged ==
    Split =>
        LET out == result.sents
            raw == fragments(call.text)
        IN  /\ \A i \in 2..Len(out) :
                   /\ Len(out[i]) >= MergeLen
                   /\ \E j \in 2..Len(raw) :
                          /\ Len(raw[j]) >= MergeLen
                          /\ starts_with(out[i], raw[j])
            /\ join(<<SP>>, out) = join(<<SP>>, raw)
            /\ Len(out) = Cardinality(sentence_starts(raw))
            /\ \A j \in sentence_starts(raw) :
                   LET i == Cardinality({m \in sentence_starts(raw) : m <= j})
                   IN  out[i] =
                           join(<<SP>>, SubSeq(raw, j, next_start(raw, j) - 1))
            /\ (call.text = <<>> => out = <<>>)

\* a short first sentence, then a sentence of a fragment of exactly 20
\* characters that a fragment of 19 characters is merged into
C11_Witness ==
    /\ Split
    /\ Len(result.sents) = 2
    /\ Len(result.sents[1]) < MergeLen
    /\ Len(fragments(call.text)) = 3
    /\ Len(fragments(call.text)[2]) = MergeLen
    /\ Len(fragments(call.text)[3]) = MergeLen - 1

(***************************************************************************)
(* Properties of the tokenizer                                             *)
(***************************************************************************)
Tokenized == phase = "returned" /\ call.op = "tokenize"

\* the number of characters of the text in the Japanese ranges
jp_count(text) == Cardinality({i \in 1..Len(text) : text[i] \in JpChars})

\* jp_count / len > 0.08, which is false of the empty text
ratio_exceeds(text) ==
    text # <<>> /\ jp_count(text) * JpThresholdDen > JpThresholdNum * Len(text)

\* a token of the Latin branch: lower case, three characters or more, no
\* stop word
latin_token(t) == t = lower(t) /\ Len(t) >= 3 /\ t \notin EN_STOP

\* C12 as stated: tokenize takes the Japanese branch exactly when the
\* ratio of Japanese characters to the length of the text is strictly
\* above 0.08; a text of a ratio of exactly 0.08 or below, and the empty
\* text, are tokenized as Latin: every token is lower case, has at least
\* three characters and is no stop word.
C12_BranchAboveThreshold ==
    Tokenized =>
        /\ result.japanese = ratio_exceeds(call.text)
        /\ ~ratio_exceeds(call.text) =>
               \A i \in 1..Len(result.tokens) : latin_token(result.tokens[i])

(***************************************************************************)
(* Properties of the key of the table                                      *)
(***************************************************************************)
Upserted == phase = "returned" /\ call.op = "upsert_doc"

\* no two rows of one hash, and no two of one id
one_row_per_hash ==
    \A d \in docs : \A e \in docs :
        (d.sha256 = e.sha256 \/ d.id = e.id) => d = e

\* a step that is a call of upsert_doc: on a stored hash it returns the id
\* of the row and False, and the table after it is the table before with
\* source_path, title and text of that row overwritten; on a new hash it
\* returns a new id and True and adds one row, the others as they were
upsert_step ==
    (phase = "idle" /\ phase' = "returned" /\ call'.op = "upsert_doc") =>
        LET found == {d \in docs : d.sha256 = call'.sha256}
        IN  IF found # {}
            THEN \E old \in found :
                    /\ result'.doc_id = old.id
                    /\ result'.inserted = FALSE
                    /\ Cardinality(docs') = Cardinality(docs)
                    /\ docs' = (docs \ {old}) \cup
                           {[id |-> old.id, sha256 |-> old.sha256,
                             created_at |-> old.created_at,
                             source_path |-> call'.source_path,
                             title |-> call'.title, text |-> call'.text]}
            ELSE /\ result'.inserted = TRUE
                 /\ \A d \in docs : d.id # result'.doc_id
                 /\ docs' = docs \cup
                        {[id |-> result'.doc_id, sha256 |-> call'.sha256,
                          created_at |-> call'.created_at,
                          source_path |-> call'.source_path,
                          title |-> call'.title, text |-> call'.text]}

\* the inputs of a call without the files that are skipped
kept_inputs(inputs) ==
    LET files == iter_files(inputs)
        keep == {k \in 1..Len(files) : ingestible(files[k])}
    IN  [i \in 1..Cardinality(keep) |->
            files[CHOOSE k \in keep : Cardinality({m \in keep : m <= k}) = i]]

\* a step that is a call of ingest_paths: the skipped files change nothing
\* (the store after the call is the store after the same call without
\* them, and the store before it when every file is skipped); a file of a
\* stored hash gets the id of its row and inserted = False, and the row
\* keeps its id, its hash and created_at; rows of other hashes stay
ingest_step ==
    (phase = "idle" /\ phase' = "returned" /\ call'.op = "ingest_paths") =>
        LET files == iter_files(call'.inputs)
            res == result'.results
            kept == kept_inputs(call'.inputs)
        IN  /\ \E alone \in {ingest_paths(docs, docs_fts, seq, kept,
                                           call'.now)} :
                   docs' = alone.docs /\ docs_fts' = alone.fts
                       /\ seq' = alone.seq
            /\ (\A k \in 1..Len(res) : res[k].skipped) =>
                   (docs' = docs /\ docs_fts' = docs_fts /\ seq' = seq)
            /\ \A d \in docs :
                   \E e \in docs' :
                       /\ e.id = d.id
                       /\ e.sha256 = d.sha256
                       /\ e.created_at = d.created_at
                       /\ (\A k \in 1..Len(files) :
                               ingestible(files[k]) =>
                                   files[k].sha256 # d.sha256) => e = d
            /\ \A k \in 1..Len(res) :
                   (~res[k].skipped
                        /\ \E d \in docs : d.sha256 = files[k].sha256) =>
                       /\ res[k].inserted = FALSE
                       /\ \E d \in docs : /\ d.sha256 = files[k].sha256
                                          /\ d.id = res[k].doc_id
            /\ Cardinality(docs') =
                   Cardinality(docs) +
                   Cardinality({files[k].sha256 :
                                   k \in {m \in 1..Len(files) :
                                             ingestible(files[m])}}
                                   \ {d.sha256 : d \in docs})

\* C13: documents are keyed by their hash.  After any sequence of calls of
\* upsert_doc and ingest_paths the table holds at most one row of a hash;
\* an upsert of a stored hash returns the id of the row and inserted =
\* False, leaves the number of rows and the id, hash and created_at of the
\* row, and overwrites only source_path, title and text; a skipped file
\* leaves the table as it was.
C13_KeyedByHash ==
    /\ []one_row_per_hash
    /\ [][upsert_step /\ ingest_step]_vars

\* an upsert of a stored hash under another path and at a later time: the
\* row has the new path and the old created_at
C13_Witness ==
    /\ Upserted
    /\ ~result.inserted
    /\ \E d \in docs :
           /\ d.id = result.doc_id
           /\ d.sha256 = call.sha256
           /\ d.source_path = call.source_path
           /\ d.title = call.title
           /\ d.created_at < call.created_at
           /\ d.source_path = resolve(p_b_HTM)
           /\ d.id = 1
           /\ seq = 2
====
